---- MODULE Spec2Model ----
(***************************************************************************)
(* Streaming mappers and reducers of the MapReduce exercises.              *)
(*                                                                         *)
(* A text line is a sequence of one-character strings.  Every script reads *)
(* the lines of stdin one at a time; one action models one iteration of    *)
(* the script's "for line in sys.stdin" loop, another one the code after   *)
(* the loop.  An uncaught Python exception ends the run (pc = "raised").   *)
(* genRow is the row made by the dataset generator (SpecGen), <<>> elsewhere. *)
(* num_rows, batch_size, batch_num (the loop counter) and file (the text   *)
(* written) are the state of the file-writing loops (SpecFile).            *)
(*                                                                         *)
(* Numbers: a Python number is [t |-> "int" | "float", n |-> tenths,       *)
(* negz |-> the float is negative zero].  The measures of the sample lines *)
(* are multiples of 0.5, which binary floating point represents and adds   *)
(* exactly, so n is the exact value.                                       *)
(***************************************************************************)
EXTENDS Integers, Sequences, FiniteSets, TLC

VARIABLES prog, stdin, pos, oldKey, acc, out, pc, exc, genRow,
          num_rows, batch_size, batch_num, file

\* The state of a run that writes a dataset file.
fileVars == <<num_rows, batch_size, batch_num, file>>

vars == <<prog, stdin, pos, oldKey, acc, out, pc, exc, genRow, fileVars>>

\* Largest number of lines on stdin.
MaxLines == 3

(***************************************************************************)
(* Strings                                                                 *)
(***************************************************************************)
TAB == "\t"
NL == "\n"
SP == " "

\* The characters str.strip() removes (those that occur in the sample lines).
Whitespace == {SP, TAB, NL}

Digits == {"0", "1", "2", "3", "4", "5", "6", "7", "8", "9"}

DigitVal(c) ==
    CASE c = "0" -> 0 [] c = "1" -> 1 [] c = "2" -> 2 [] c = "3" -> 3
      [] c = "4" -> 4 [] c = "5" -> 5 [] c = "6" -> 6 [] c = "7" -> 7
      [] c = "8" -> 8 [] c = "9" -> 9

Tail2(s, i) == SubSeq(s, i, Len(s))

RECURSIVE LStrip(_)
LStrip(s) ==
    IF s # <<>> /\ Head(s) \in Whitespace THEN LStrip(Tail(s)) ELSE s

RECURSIVE RStrip(_)
RStrip(s) ==
    IF s # <<>> /\ s[Len(s)] \in Whitespace
    THEN RStrip(SubSeq(s, 1, Len(s) - 1))
    ELSE s

\* str.strip()
Strip(s) == RStrip(LStrip(s))

\* Index of the first occurrence of character c in s, 0 when there is none.
IndexOf(s, c) ==
    IF \E i \in 1..Len(s) : s[i] = c
    THEN CHOOSE i \in 1..Len(s) : s[i] = c /\ \A j \in 1..(i - 1) : s[j] # c
    ELSE 0

\* str.split(sep) for a one-character separator: always at least one field.
RECURSIVE Split(_, _)
Split(s, sep) ==
    LET i == IndexOf(s, sep)
    IN  IF i = 0
        THEN <<s>>
        ELSE <<SubSeq(s, 1, i - 1)>> \o Split(Tail2(s, i + 1), sep)

(***************************************************************************)
(* Numbers                                                                 *)
(***************************************************************************)
IntNum(i) == [t |-> "int", n |-> 10 * i, negz |-> FALSE]

AllDigits(s) == \A i \in 1..Len(s) : s[i] \in Digits

Unsigned(s) == IF s # <<>> /\ Head(s) \in {"-", "+"} THEN Tail(s) ELSE s

Sign(s) == IF s # <<>> /\ Head(s) = "-" THEN -1 ELSE 1

RECURSIVE NatOf(_)
NatOf(s) ==
    IF s = <<>> THEN 0
    ELSE 10 * NatOf(SubSeq(s, 1, Len(s) - 1)) + DigitVal(s[Len(s)])

\* float(s) succeeds: optional whitespace, optional sign, a decimal literal
\* with at least one digit ("5", "2.5", "5.", ".5").  The sample lines hold no
\* letter of "inf", "nan" or an exponent, and no underscore.
IsFloat(s) ==
    LET u == Unsigned(Strip(s))
        parts == Split(u, ".")
    IN  /\ Len(parts) \in {1, 2}
        /\ \A i \in 1..Len(parts) : AllDigits(parts[i])
        /\ \E i \in 1..Len(parts) : parts[i] # <<>>

\* The value of float(s) in tenths (the first fractional digit is the last one
\* in every sample line); float("-0") is negative zero.
FloatOf(s) ==
    LET u == Unsigned(Strip(s))
        parts == Split(u, ".")
        frac == IF Len(parts) = 2 /\ parts[2] # <<>>
                THEN DigitVal(parts[2][1]) ELSE 0
        mag == 10 * NatOf(parts[1]) + frac
    IN  [t |-> "float", n |-> Sign(Strip(s)) * mag,
         negz |-> Sign(Strip(s)) = -1 /\ mag = 0]

\* int(s) succeeds: optional whitespace, optional sign, digits only.
IsInt(s) ==
    LET u == Unsigned(Strip(s))
    IN  u # <<>> /\ AllDigits(u)

IntOf(s) == IntNum(Sign(Strip(s)) * NatOf(Unsigned(Strip(s))))

\* a + b: the result is a float as soon as one operand is; a zero sum is
\* negative zero only when both operands are.
Add(a, b) ==
    [t |-> IF a.t = "int" /\ b.t = "int" THEN "int" ELSE "float",
     n |-> a.n + b.n,
     negz |-> a.negz /\ b.negz]

\* a > b
Gt(a, b) == a.n > b.n

(***************************************************************************)
(* Keys and results                                                        *)
(***************************************************************************)
\* oldKey is a sequence of zero keys (Python's None) or one key.
None == <<>>

Some(k) == <<k>>

\* Truth value of "oldKey" in "if oldKey and ...": None and "" are false.
Truthy(k) == k # None /\ k[1] # <<>>

\* One printed line key + "\t" + str(value).
Result(k, v) == [key |-> k, value |-> v]

TOTAL_ABSOLUTO ==
    <<"T", "O", "T", "A", "L", "_", "A", "B", "S", "O", "L", "U", "T", "O">>

(***************************************************************************)
(* Reducers.  st is the script's state: [oldKey, acc, out, exc].           *)
(***************************************************************************)
Raise(st, e) == [st EXCEPT !.exc = e]

\* exercise3/reducer.py: maximum sale per key.
Ex3Init == [oldKey |-> None, acc |-> IntNum(-1), out |-> <<>>, exc |-> "none"]

Ex3LineBreakOnMalformed(st, line) ==
    LET data_mapped == Split(Strip(line), TAB)
    IN  IF Len(data_mapped) # 2 THEN [st EXCEPT !.oldKey = None]
        ELSE LET thisKey == data_mapped[1]
             IN  IF ~IsFloat(data_mapped[2]) THEN Raise(st, "ValueError")
                 ELSE LET thisSale == FloatOf(data_mapped[2])
                      IN  IF Truthy(st.oldKey) /\ st.oldKey # Some(thisKey)
                          THEN [st EXCEPT
                                  !.out = Append(@, Result(st.oldKey[1], st.acc)),
                                  !.oldKey = Some(thisKey),
                                  !.acc = thisSale]
                          ELSE [st EXCEPT
                                  !.acc = IF Gt(thisSale, @) THEN thisSale ELSE @,
                                  !.oldKey = Some(thisKey)]

Ex3Line(st, line) ==
    LET data_mapped == Split(Strip(line), TAB)
    IN  IF Len(data_mapped) # 2 THEN st
        ELSE LET thisKey == data_mapped[1]
             IN  IF ~IsFloat(data_mapped[2]) THEN Raise(st, "ValueError")
                 ELSE LET thisSale == FloatOf(data_mapped[2])
                      IN  IF Truthy(st.oldKey) /\ st.oldKey # Some(thisKey)
                          THEN [st EXCEPT
                                  !.out = Append(@, Result(st.oldKey[1], st.acc)),
                                  !.oldKey = Some(thisKey),
                                  !.acc = thisSale]
                          ELSE [st EXCEPT
                                  !.acc = IF Gt(thisSale, @) THEN thisSale ELSE @,
                                  !.oldKey = Some(thisKey)]

Ex3End(st) ==
    IF st.oldKey # None
    THEN [st EXCEPT !.out = Append(@, Result(st.oldKey[1], st.acc))]
    ELSE st

\* exercise4/reducer.py: count per key.
Ex4Init == [oldKey |-> None, acc |-> IntNum(0), out |-> <<>>, exc |-> "none"]

Ex4LineLoseFirst(st, line) ==
    LET data_mapped == Split(Strip(line), TAB)
    IN  IF Len(data_mapped) # 2 THEN st
        ELSE LET thisKey == data_mapped[1]
             IN  IF ~IsInt(data_mapped[2]) THEN Raise(st, "ValueError")
                 ELSE LET thisCount == IntOf(data_mapped[2])
                      IN  IF Truthy(st.oldKey) /\ st.oldKey # Some(thisKey)
                          THEN [st EXCEPT
                                  !.out = Append(@, Result(st.oldKey[1], st.acc)),
                                  !.oldKey = Some(thisKey),
                                  !.acc = IntNum(0)]
                          ELSE [st EXCEPT
                                  !.acc = Add(@, thisCount),
                                  !.oldKey = Some(thisKey)]

Ex4LineKeepKeys(st, line) ==
    LET data_mapped == Split(Strip(line), TAB)
    IN  IF Len(data_mapped) # 2 THEN st
        ELSE LET thisKey == data_mapped[1]
             IN  IF ~IsInt(data_mapped[2]) THEN Raise(st, "ValueError")
                 ELSE LET thisCount == IntOf(data_mapped[2])
                      IN  IF Truthy(st.oldKey) /\ st.oldKey[Len(st.oldKey)] # thisKey
                          THEN [st EXCEPT
                                  !.out = Append(@, Result(st.oldKey[Len(st.oldKey)], st.acc)),
                                  !.oldKey = Append(@, thisKey),
                                  !.acc = thisCount]
                          ELSE [st EXCEPT
                                  !.acc = Add(@, thisCount),
                                  !.oldKey = IF @ = None THEN Some(thisKey) ELSE @]

Ex4Line(st, line) ==
    LET data_mapped == Split(Strip(line), TAB)
    IN  IF Len(data_mapped) # 2 THEN st
        ELSE LET thisKey == data_mapped[1]
             IN  IF ~IsInt(data_mapped[2]) THEN Raise(st, "ValueError")
                 ELSE LET thisCount == IntOf(data_mapped[2])
                      IN  IF Truthy(st.oldKey) /\ st.oldKey # Some(thisKey)
                          THEN [st EXCEPT
                                  !.out = Append(@, Result(st.oldKey[1], st.acc)),
                                  !.oldKey = Some(thisKey),
                                  !.acc = thisCount]
                          ELSE [st EXCEPT
                                  !.acc = Add(@, thisCount),
                                  !.oldKey = Some(thisKey)]

Ex4EndNoFlush(st) == st

Ex4End(st) ==
    IF st.oldKey # None
    THEN [st EXCEPT !.out = Append(@, Result(st.oldKey[1], st.acc))]
    ELSE st

\* exercise5/reducer.py: sum per key.  The key change is handled before the
\* measure is parsed, so the closed group is printed even when float() raises.
Ex5Init == [oldKey |-> None, acc |-> IntNum(0), out |-> <<>>, exc |-> "none"]

Ex5LineNoReset(st, line) ==
    LET data_mapped == Split(Strip(line), TAB)
    IN  IF Len(data_mapped) # 2 THEN st
        ELSE LET thisKey == data_mapped[1]
                 thisSale == data_mapped[2]
                 st1 == IF Truthy(st.oldKey) /\ st.oldKey # Some(thisKey)
                        THEN [st EXCEPT
                                !.out = Append(@, Result(st.oldKey[1], st.acc)),
                                !.oldKey = Some(thisKey)]
                        ELSE st
                 st2 == [st1 EXCEPT !.oldKey = Some(thisKey)]
             IN  IF ~IsFloat(thisSale) THEN Raise(st2, "ValueError")
                 ELSE [st2 EXCEPT !.acc = Add(@, FloatOf(thisSale))]

Ex5LineDropFirst(st, line) ==
    LET data_mapped == Split(Strip(line), TAB)
    IN  IF Len(data_mapped) # 2 THEN st
        ELSE LET thisKey == data_mapped[1]
                 thisSale == data_mapped[2]
                 boundary == Truthy(st.oldKey) /\ st.oldKey # Some(thisKey)
                 st1 == IF boundary
                        THEN [st EXCEPT
                                !.out = Append(@, Result(st.oldKey[1], st.acc)),
                                !.oldKey = Some(thisKey),
                                !.acc = IntNum(0)]
                        ELSE st
                 st2 == [st1 EXCEPT !.oldKey = Some(thisKey)]
             IN  IF ~IsFloat(thisSale) THEN Raise(st2, "ValueError")
                 ELSE IF boundary THEN st2
                 ELSE [st2 EXCEPT !.acc = Add(@, FloatOf(thisSale))]

Ex5Line(st, line) ==
    LET data_mapped == Split(Strip(line), TAB)
    IN  IF Len(data_mapped) # 2 THEN st
        ELSE LET thisKey == data_mapped[1]
                 thisSale == data_mapped[2]
                 st1 == IF Truthy(st.oldKey) /\ st.oldKey # Some(thisKey)
                        THEN [st EXCEPT
                                !.out = Append(@, Result(st.oldKey[1], st.acc)),
                                !.oldKey = Some(thisKey),
                                !.acc = IntNum(0)]
                        ELSE st
                 st2 == [st1 EXCEPT !.oldKey = Some(thisKey)]
             IN  IF ~IsFloat(thisSale) THEN Raise(st2, "ValueError")
                 ELSE [st2 EXCEPT !.acc = Add(@, FloatOf(thisSale))]

Ex5EndPrepend(st) ==
    IF st.oldKey # None
    THEN [st EXCEPT !.out = <<Result(st.oldKey[1], st.acc)>> \o @]
    ELSE st

Ex5End(st) ==
    IF st.oldKey # None
    THEN [st EXCEPT !.out = Append(@, Result(st.oldKey[1], st.acc))]
    ELSE st

\* exercise6/reducer.py: grand total; oldKey is not used.
Ex6Init == [oldKey |-> None, acc |-> IntNum(0), out |-> <<>>, exc |-> "none"]

Ex6LineRunningTotal(st, line) ==
    LET data_mapped == Split(Strip(line), TAB)
    IN  IF Len(data_mapped) # 2 THEN st
        ELSE IF ~IsFloat(data_mapped[2]) THEN Raise(st, "ValueError")
        ELSE [st EXCEPT
                !.acc = Add(@, FloatOf(data_mapped[2])),
                !.out = Append(@, Result(TOTAL_ABSOLUTO,
                                         Add(st.acc, FloatOf(data_mapped[2]))))]

Ex6LineSkipBadMeasure(st, line) ==
    LET data_mapped == Split(Strip(line), TAB)
    IN  IF Len(data_mapped) # 2 THEN st
        ELSE IF ~IsFloat(data_mapped[2]) THEN st
        ELSE [st EXCEPT !.acc = Add(@, FloatOf(data_mapped[2]))]

Ex6Line(st, line) ==
    LET data_mapped == Split(Strip(line), TAB)
    IN  IF Len(data_mapped) # 2 THEN st
        ELSE IF ~IsFloat(data_mapped[2]) THEN Raise(st, "ValueError")
        ELSE [st EXCEPT !.acc = Add(@, FloatOf(data_mapped[2]))]

Ex6EndSkipZero(st) ==
    IF st.acc.n # 0
    THEN [st EXCEPT !.out = Append(@, Result(TOTAL_ABSOLUTO, st.acc))]
    ELSE st

Ex6End(st) == [st EXCEPT !.out = Append(@, Result(TOTAL_ABSOLUTO, st.acc))]

(***************************************************************************)
(* Mappers.  No state is kept between lines: st holds only out and exc,    *)
(* oldKey and acc stay at their initial values.                            *)
(***************************************************************************)
MapInit == [oldKey |-> None, acc |-> IntNum(0), out |-> <<>>, exc |-> "none"]

\* exercise2/mapper.py: key = item, measure = cost.
Ex2MapLine(st, line) ==
    LET l == Strip(line)
        data == Split(l, TAB)
    IN  IF l = <<>> THEN st
        ELSE IF Len(data) # 5 THEN st
        ELSE LET item == data[3]
                 cost == data[4]
             IN  IF ~IsFloat(cost) THEN st
                 ELSE [st EXCEPT !.out = Append(@, item \o <<TAB>> \o cost)]

\* exercise5/mapper.py: key = hour of the timestamp, measure = cost.
\* datetime.split(" ")[1] raises IndexError, which "except ValueError" does
\* not catch, when the timestamp holds no space.
Ex5MapLine(st, line) ==
    LET l == Strip(line)
        data == Split(l, TAB)
    IN  IF l = <<>> THEN st
        ELSE IF Len(data) # 5 THEN st
        ELSE LET datetime == data[1]
                 cost == data[4]
                 words == Split(datetime, SP)
             IN  IF Len(words) < 2 THEN Raise(st, "IndexError")
                 ELSE LET hour == Split(words[2], ":")[1]
                      IN  IF ~IsFloat(cost) THEN st
                          ELSE [st EXCEPT
                                  !.out = Append(@, hour \o <<TAB>> \o cost)]

MapEnd(st) == st

(***************************************************************************)
(* Inputs                                                                  *)
(***************************************************************************)
RECURSIVE Join(_)
\* The fields separated by tabs.
Join(fields) ==
    IF Len(fields) = 1 THEN fields[1]
    ELSE fields[1] \o <<TAB>> \o Join(Tail(fields))

\* A line as sys.stdin yields it: the text and its newline.
Ln(fields) == Join(fields) \o <<NL>>

\* Lines fed to the reducers: pairs with positive, negative, negative-zero
\* and fractional measures under the keys "a", "ab" and "b", a pair with blanks around its
\* fields, a pair whose measure is no number, and lines that are no pairs.
ReducerLines ==
    { Ln(<< <<"a">>, <<"1">> >>),
      Ln(<< <<"a">>, <<"5">> >>),
      Ln(<< <<"a">>, <<"-", "5">> >>),
      Ln(<< <<"a">>, <<"-", "0">> >>),
      Ln(<< <<"a", "b">>, <<"-", "2">> >>),
      Ln(<< <<"b">>, <<"1">> >>),
      Ln(<< <<"b">>, <<"-", "5">> >>),
      Ln(<< <<"b">>, <<"2", ".", "5">> >>),
      Ln(<< <<SP, "b">>, <<SP, "1", SP>> >>),
      Ln(<< <<"a">>, <<"x">> >>),
      Ln(<< <<"a">> >>),
      Ln(<< <<"a">>, <<"1">>, <<"2">> >>),
      <<NL>> }

\* Records fed to the mappers: timestamp, store, item, cost, payment.
MapperLines ==
    { Ln(<< <<"1", SP, "0", "9", ":", "3", "0">>, <<"S">>, <<"a">>, <<"5">>, <<"c">> >>),
      Ln(<< <<"1", SP, "1", "0", ":", "0", "0">>, <<"S">>, <<"b">>, <<"2", ".", "5">>, <<"c">> >>),
      Ln(<< <<"1", SP, "0", "9", ":", "3", "0">>, <<"S">>, <<"a">>, <<"c">> >>),
      Ln(<< <<"1", SP, "0", "9", ":", "3", "0">>, <<"S">>, <<"a">>, <<"a", "b", "c">>, <<"c">> >>),
      Ln(<< <<"1">>, <<"S">>, <<"a">>, <<"5">>, <<"c">> >>),
      Ln(<< <<"1">>, <<"S">>, <<"a">>, <<"a", "b", "c">>, <<"c">> >>),
      Ln(<< <<"1", SP, "0", "9", "3", "0">>, <<"S">>, <<"a">>, <<"5">>, <<"c">> >>),
      Ln(<< <<"1", SP, ":", "3", "0">>, <<"S">>, <<"a">>, <<"5">>, <<"c">> >>),
      Ln(<< <<"1", SP, "0", "9", ":", "3", "0">>, <<"S">>, <<>>, <<"5">>, <<"c">> >>),
      Ln(<< <<"1", SP, "0", "9", ":", "3", "0">>, <<"S">>, <<"a">>, <<"5">>, <<>> >>),
      <<NL>> }

Reducers == {"ex3", "ex4", "ex5", "ex6"}

Grouped == {"ex3", "ex4", "ex5"}

Mappers == {"ex2map", "ex5map"}

Streams(lines) == UNION { [1..n -> lines] : n \in 0..MaxLines }

InitOf(p) ==
    CASE p = "ex3" -> Ex3Init
      [] p = "ex4" -> Ex4Init
      [] p = "ex5" -> Ex5Init
      [] p = "ex6" -> Ex6Init
      [] OTHER -> MapInit

LineOf(p, st, line) ==
    CASE p = "ex3" -> Ex3Line(st, line)
      [] p = "ex4" -> Ex4Line(st, line)
      [] p = "ex5" -> Ex5Line(st, line)
      [] p = "ex6" -> Ex6Line(st, line)
      [] p = "ex2map" -> Ex2MapLine(st, line)
      [] p = "ex5map" -> Ex5MapLine(st, line)

EndOf(p, st) ==
    CASE p = "ex3" -> Ex3End(st)
      [] p = "ex4" -> Ex4End(st)
      [] p = "ex5" -> Ex5End(st)
      [] p = "ex6" -> Ex6End(st)
      [] OTHER -> MapEnd(st)

(***************************************************************************)
(* The state machine                                                       *)
(***************************************************************************)
State == [oldKey |-> oldKey, acc |-> acc, out |-> out, exc |-> exc]

\* No dataset file is being written.
NoFile ==
    /\ num_rows = 0
    /\ batch_size = 1
    /\ batch_num = 0
    /\ file = <<>>

Init ==
    /\ prog \in Reducers \cup Mappers
    /\ stdin \in IF prog \in Reducers
                 THEN Streams(ReducerLines) ELSE Streams(MapperLines)
    /\ pos = 1
    /\ oldKey = InitOf(prog).oldKey
    /\ acc = InitOf(prog).acc
    /\ out = <<>>
    /\ exc = "none"
    /\ pc = "loop"
    /\ genRow = <<>>
    /\ NoFile

\* The script is left in state st; an exception ends the run.
Become(st) ==
    /\ oldKey' = st.oldKey
    /\ acc' = st.acc
    /\ out' = st.out
    /\ exc' = st.exc

\* One iteration of "for line in sys.stdin" of script p.
Iterate(p, st) ==
    /\ prog = p
    /\ pc = "loop"
    /\ pos <= Len(stdin)
    /\ Become(st)
    /\ pc' = IF st.exc = "none" THEN "loop" ELSE "raised"
    /\ pos' = pos + 1
    /\ UNCHANGED <<prog, stdin, genRow, fileVars>>

\* End of input: the code after the loop of script p.
Finish(p, st) ==
    /\ prog = p
    /\ pc = "loop"
    /\ pos > Len(stdin)
    /\ Become(st)
    /\ pc' = "done"
    /\ UNCHANGED <<prog, stdin, pos, genRow, fileVars>>

Ex3ReducerLine == Iterate("ex3", Ex3Line(State, stdin[pos]))

Ex3ReducerEnd == Finish("ex3", Ex3End(State))

Ex4ReducerLine == Iterate("ex4", Ex4Line(State, stdin[pos]))

Ex4ReducerEnd == Finish("ex4", Ex4End(State))

Ex5ReducerLine == Iterate("ex5", Ex5Line(State, stdin[pos]))

Ex5ReducerEnd == Finish("ex5", Ex5End(State))

Ex6ReducerLine == Iterate("ex6", Ex6Line(State, stdin[pos]))

Ex6ReducerEnd == Finish("ex6", Ex6End(State))

Ex2MapperLine == Iterate("ex2map", Ex2MapLine(State, stdin[pos]))

Ex2MapperEnd == Finish("ex2map", MapEnd(State))

Ex5MapperLine == Iterate("ex5map", Ex5MapLine(State, stdin[pos]))

Ex5MapperEnd == Finish("ex5map", MapEnd(State))

Next ==
    \/ Ex3ReducerLine
    \/ Ex3ReducerEnd
    \/ Ex4ReducerLine
    \/ Ex4ReducerEnd
    \/ Ex5ReducerLine
    \/ Ex5ReducerEnd
    \/ Ex6ReducerLine
    \/ Ex6ReducerEnd
    \/ Ex2MapperLine
    \/ Ex2MapperEnd
    \/ Ex5MapperLine
    \/ Ex5MapperEnd

Spec == Init /\ [][Next]_vars

TypeOK ==
    /\ prog \in Reducers \cup Mappers
    /\ pos \in 1..(Len(stdin) + 1)
    /\ pc \in {"loop", "done", "raised"}
    /\ exc \in {"none", "ValueError", "IndexError"}
    /\ (pc = "raised") = (exc # "none")
    /\ Len(out) <= Len(stdin) + 1

(***************************************************************************)
(* generator/sales_generator.py: the rows of the dataset generators.       *)
(* A random draw is an input of the operator; weights are scaled to        *)
(* integers (hours and payments by 100, cities by 10), prices are in cents.*)
(***************************************************************************)
DigitChar(d) ==
    CASE d = 0 -> "0" [] d = 1 -> "1" [] d = 2 -> "2" [] d = 3 -> "3"
      [] d = 4 -> "4" [] d = 5 -> "5" [] d = 6 -> "6" [] d = 7 -> "7"
      [] d = 8 -> "8" [] d = 9 -> "9"

RECURSIVE NatStr(_)
\* The decimal digits of a natural number.
NatStr(n) ==
    IF n < 10 THEN <<DigitChar(n)>>
    ELSE NatStr(n \div 10) \o <<DigitChar(n % 10)>>

\* Two digits, zero padded (%m, %d, %H, %M).
Pad2(n) == IF n < 10 THEN <<"0">> \o NatStr(n) ELSE NatStr(n)

StrftimeIso(date, hour, minute) ==
    NatStr(date.y) \o <<"-">> \o Pad2(date.m) \o <<"-">> \o Pad2(date.d)
        \o <<"T">> \o Pad2(hour) \o <<":">> \o Pad2(minute)

\* strftime('%Y-%m-%d %H:%M') of the date with hour and minute replaced.
Strftime(date, hour, minute) ==
    NatStr(date.y) \o <<"-">> \o Pad2(date.m) \o <<"-">> \o Pad2(date.d)
        \o <<SP>> \o Pad2(hour) \o <<":">> \o Pad2(minute)

\* "%s" % price for a price rounded to 2 decimals, given in cents: at least
\* one decimal, no trailing zero after it.
PriceStr(cents) ==
    NatStr(cents \div 100) \o <<".">>
        \o (IF cents % 10 = 0 THEN NatStr((cents % 100) \div 10)
            ELSE Pad2(cents % 100))

RECURSIVE WeightedFrom(_, _, _, _, _)
WeightedFrom(choices, weights, r, upto, i) ==
    IF i > Len(choices) THEN choices[Len(choices)]
    ELSE IF upto + weights[i] >= r THEN choices[i]
    ELSE WeightedFrom(choices, weights, r, upto + weights[i], i + 1)

\* weighted_choice with the draw r = random.uniform(0, total).
WeightedChoice(choices, weights, r) == WeightedFrom(choices, weights, r, 0, 1)

RECURSIVE SumSeq(_)
SumSeq(w) == IF w = <<>> THEN 0 ELSE Head(w) + SumSeq(Tail(w))

\* Draws of random.uniform(0, total): both ends and a middle value.
UniformDraws(weights) == {0, SumSeq(weights) \div 2, SumSeq(weights)}

Cities ==
    << <<"A", " ", "C", "o", "r", "u", "n", "h", "a">>,
       <<"V", "i", "g", "o">>,
       <<"S", "a", "n", "t", "i", "a", "g", "o">>,
       <<"O", "u", "r", "e", "n", "s", "e">>,
       <<"L", "u", "g", "o">>,
       <<"P", "o", "n", "t", "e", "v", "e", "d", "r", "a">>,
       <<"F", "e", "r", "r", "o", "l">>,
       <<"N", "a", "r", "o", "n">>,
       <<"O", "l", "e", "i", "r", "o", "s">>,
       <<"C", "a", "r", "b", "a", "l", "l", "o">>,
       <<"A", "r", "t", "e", "i", "x", "o">>,
       <<"R", "i", "b", "e", "i", "r", "a">>,
       <<"C", "a", "n", "g", "a", "s">>,
       <<"M", "a", "r", "i", "n">>,
       <<"B", "u", "r", "e", "l", "a">>,
       <<"S", "a", "r", "r", "i", "a">>,
       <<"M", "o", "n", "f", "o", "r", "t", "e">>,
       <<"C", "h", "a", "n", "t", "a", "d", "a">>,
       <<"F", "o", "z">>,
       <<"M", "o", "n", "d", "o", "n", "h", "e", "d", "o">> >>

CityWeights ==
    <<15, 15, 13, 12, 12, 12, 10, 10, 10, 10, 10, 10, 8, 8, 7, 7, 6, 6, 5, 5>>

\* Category, lowest and highest price of its range.
Categories ==
    << [name |-> <<"A", "l", "i", "m", "e", "n", "t", "a", "c", "i", "o", "n">>, low |-> 1, high |-> 50],
       [name |-> <<"E", "l", "e", "c", "t", "r", "o", "n", "i", "c", "a">>, low |-> 100, high |-> 3000],
       [name |-> <<"R", "o", "p", "a">>, low |-> 15, high |-> 400],
       [name |-> <<"H", "o", "g", "a", "r">>, low |-> 10, high |-> 600],
       [name |-> <<"J", "u", "g", "u", "e", "t", "e", "s">>, low |-> 8, high |-> 200],
       [name |-> <<"D", "e", "p", "o", "r", "t", "e", "s">>, low |-> 20, high |-> 500],
       [name |-> <<"L", "i", "b", "r", "o", "s">>, low |-> 8, high |-> 80],
       [name |-> <<"M", "u", "s", "i", "c", "a">>, low |-> 10, high |-> 120],
       [name |-> <<"C", "i", "n", "e">>, low |-> 5, high |-> 20],
       [name |-> <<"J", "a", "r", "d", "i", "n", "e", "r", "i", "a">>, low |-> 3, high |-> 250],
       [name |-> <<"F", "e", "r", "r", "e", "t", "e", "r", "i", "a">>, low |-> 2, high |-> 350],
       [name |-> <<"C", "o", "s", "m", "e", "t", "i", "c", "a">>, low |-> 8, high |-> 300],
       [name |-> <<"F", "a", "r", "m", "a", "c", "i", "a">>, low |-> 5, high |-> 120],
       [name |-> <<"A", "u", "t", "o", "m", "o", "c", "i", "o", "n">>, low |-> 20, high |-> 1000],
       [name |-> <<"M", "a", "s", "c", "o", "t", "a", "s">>, low |-> 6, high |-> 180],
       [name |-> <<"M", "o", "d", "a", " ", "h", "o", "m", "b", "r", "e">>, low |-> 25, high |-> 450],
       [name |-> <<"M", "o", "d", "a", " ", "m", "u", "j", "e", "r">>, low |-> 25, high |-> 550],
       [name |-> <<"C", "a", "l", "z", "a", "d", "o">>, low |-> 30, high |-> 350],
       [name |-> <<"C", "o", "m", "p", "l", "e", "m", "e", "n", "t", "o", "s">>, low |-> 8, high |-> 250],
       [name |-> <<"B", "e", "b", "e", "s">>, low |-> 12, high |-> 400] >>

Hours == <<9, 10, 11, 12, 13, 14, 15, 16, 17, 18, 19, 20>>

HourWeights == <<6, 8, 10, 15, 9, 5, 4, 6, 10, 16, 8, 3>>

RECURSIVE PartialSums(_, _)
PartialSums(w, upto) ==
    IF w = <<>> THEN {}
    ELSE {upto + Head(w)} \cup PartialSums(Tail(w), upto + Head(w))

\* Draws that reach every hour: the bounds of the weight intervals.
HourDraws == {0, 1} \cup PartialSums(HourWeights, 0)

Minutes == {0, 59}

\* start + timedelta(days) for the first day, a leap day and the last day of
\* the default range 2020-01-01 .. 2023-12-31.
RandomDates ==
    { [y |-> 2020, m |-> 1, d |-> 1],
      [y |-> 2020, m |-> 2, d |-> 29],
      [y |-> 2023, m |-> 12, d |-> 31] }

\* generate_price: a value of the range times the noise 0.95 .. 1.05, rounded
\* to cents: the lowest and the highest outcome and one with two decimals.
PriceDraws(cat) == {95 * cat.low, 100 * cat.low + 37, 105 * cat.high}

\* The methods and weights generate_payment_method chooses from for a price.
PaymentTable(cents) ==
    IF cents < 5000
    THEN [methods |-> << <<"c", "a", "s", "h">>,
                         <<"e", "f", "e", "c", "t", "i", "v", "o">>,
                         <<"b", "i", "z", "u", "m">>,
                         <<"v", "i", "s", "a">>,
                         <<"m", "a", "s", "t", "e", "r", "c", "a", "r", "d">> >>,
          weights |-> <<40, 30, 15, 10, 5>>]
    ELSE IF cents > 30000
    THEN [methods |-> << <<"t", "r", "a", "n", "s", "f", "e", "r", "e", "n", "c", "i", "a">>,
                         <<"v", "i", "s", "a">>,
                         <<"m", "a", "s", "t", "e", "r", "c", "a", "r", "d">>,
                         <<"p", "a", "y", "p", "a", "l">>,
                         <<"c", "h", "e", "q", "u", "e">> >>,
          weights |-> <<35, 25, 20, 10, 10>>]
    ELSE [methods |-> << <<"v", "i", "s", "a">>,
                         <<"m", "a", "s", "t", "e", "r", "c", "a", "r", "d">>,
                         <<"m", "e", "t", "a", "l", "i", "c", "o">>,
                         <<"e", "f", "e", "c", "t", "i", "v", "o">>,
                         <<"b", "i", "z", "u", "m">> >>,
          weights |-> <<25, 20, 15, 15, 10>>]

generate_payment_method(cents, r) ==
    WeightedChoice(PaymentTable(cents).methods, PaymentTable(cents).weights, r)

\* generate_row: "%s\t%s\t%s\t%s\t%s" of date, city, category, price, payment.
generate_row(date, hourDraw, minute, cityDraw, cat, cents, payDraw) ==
    Join(<< Strftime(date, WeightedChoice(Hours, HourWeights, hourDraw), minute),
            WeightedChoice(Cities, CityWeights, cityDraw),
            cat.name,
            PriceStr(cents),
            generate_payment_method(cents, payDraw) >>)

SimpleCities ==
    { <<"A", " ", "C", "o", "r", "u", "n", "h", "a">>,
      <<"V", "i", "g", "o">>,
      <<"S", "a", "n", "t", "i", "a", "g", "o">>,
      <<"O", "u", "r", "e", "n", "s", "e">>,
      <<"L", "u", "g", "o">>,
      <<"P", "o", "n", "t", "e", "v", "e", "d", "r", "a">>,
      <<"F", "e", "r", "r", "o", "l">>,
      <<"N", "a", "r", "o", "n">>,
      <<"O", "l", "e", "i", "r", "o", "s">>,
      <<"C", "a", "r", "b", "a", "l", "l", "o">> }

SimpleCategories ==
    { [name |-> <<"A", "l", "i", "m", "e", "n", "t", "a", "c", "i", "o", "n">>, low |-> 1, high |-> 50],
      [name |-> <<"E", "l", "e", "c", "t", "r", "o", "n", "i", "c", "a">>, low |-> 100, high |-> 2000],
      [name |-> <<"R", "o", "p", "a">>, low |-> 15, high |-> 300],
      [name |-> <<"H", "o", "g", "a", "r">>, low |-> 10, high |-> 500],
      [name |-> <<"D", "e", "p", "o", "r", "t", "e", "s">>, low |-> 20, high |-> 400] }

SimplePaymentMethods ==
    { <<"c", "a", "s", "h">>,
      <<"v", "i", "s", "a">>,
      <<"m", "a", "s", "t", "e", "r", "c", "a", "r", "d">>,
      <<"t", "r", "a", "n", "s", "f", "e", "r", "e", "n", "c", "i", "a">>,
      <<"b", "i", "z", "u", "m">> }

RECURSIVE SimpleHourFrom(_, _, _)
SimpleHourFrom(r, cumulative, i) ==
    IF i > Len(HourWeights) THEN 9
    ELSE IF r <= cumulative + HourWeights[i] THEN 9 + (i - 1)
    ELSE SimpleHourFrom(r, cumulative + HourWeights[i], i + 1)

\* The hour loop of generate_datetime_str with the draw r = randint(1, 100).
SimpleHour(r) == SimpleHourFrom(r, 0, 1)

SimpleHourDraws == {1, 100} \cup PartialSums(HourWeights, 0)

\* datetime(2023, 1, 1) + timedelta(days=day_of_year - 1) for the days 1, 59
\* and 365.
SimpleDates ==
    { [y |-> 2023, m |-> 1, d |-> 1],
      [y |-> 2023, m |-> 2, d |-> 28],
      [y |-> 2023, m |-> 12, d |-> 31] }

\* generate_price of the simple generator: a value of the range rounded to
\* cents.
SimplePriceDraws(cat) == {100 * cat.low, 100 * cat.low + 37, 100 * cat.high}

\* generate_payment: the methods it can return for a price.
SimplePayments(cents) ==
    IF cents < 5000
    THEN {<<"m", "e", "t", "á", "l", "i", "c", "o">>,
          <<"b", "i", "z", "u", "m">>, <<"v", "i", "s", "a">>}
    ELSE IF cents > 30000
    THEN {<<"t", "r", "a", "n", "s", "f", "e", "r", "e", "n", "c", "i", "a">>,
          <<"v", "i", "s", "a">>,
          <<"m", "a", "s", "t", "e", "r", "c", "a", "r", "d">>}
    ELSE SimplePaymentMethods

\* The row written by generate_simple_file: "%s\t%s\t%s\t%s\t%s\n".
simple_row(date, hourDraw, minute, city, cat, cents, payment) ==
    Join(<< Strftime(date, SimpleHour(hourDraw), minute),
            city, cat.name, PriceStr(cents), payment >>) \o <<NL>>

Generators == {"generate_row", "generate_simple_file"}

InitGen ==
    /\ prog \in Generators
    /\ stdin = <<>>
    /\ pos = 1
    /\ oldKey = None
    /\ acc = IntNum(0)
    /\ out = <<>>
    /\ exc = "none"
    /\ pc = "loop"
    /\ genRow = <<>>
    /\ NoFile

\* A row has been made: genRow holds it.
Made(row) ==
    /\ genRow' = row
    /\ pc' = "done"
    /\ UNCHANGED <<prog, stdin, pos, oldKey, acc, out, exc, fileVars>>

GenerateRow ==
    /\ prog = "generate_row"
    /\ pc = "loop"
    /\ \E date \in RandomDates, hourDraw \in HourDraws, minute \in Minutes,
       cityDraw \in UniformDraws(CityWeights), c \in 1..Len(Categories) :
        \E cents \in PriceDraws(Categories[c]) :
          \E payDraw \in UniformDraws(PaymentTable(cents).weights) :
            Made(generate_row(date, hourDraw, minute, cityDraw,
                              Categories[c], cents, payDraw))

\* random.choice(self.category_list) on the keys of a dict: a list under
\* Python 2; under Python 3 a view that cannot be indexed, so generate_row
\* raises TypeError before any row is made.
GenerateRowRaises ==
    /\ prog = "generate_row"
    /\ pc = "loop"
    /\ exc' = "TypeError"
    /\ pc' = "raised"
    /\ UNCHANGED <<prog, stdin, pos, oldKey, acc, out, genRow, fileVars>>

GenerateSimpleRow ==
    /\ prog = "generate_simple_file"
    /\ pc = "loop"
    /\ \E date \in SimpleDates, hourDraw \in SimpleHourDraws, minute \in Minutes,
       city \in SimpleCities, cat \in SimpleCategories :
        \E cents \in SimplePriceDraws(cat) :
            \E payment \in SimplePayments(cents) :
                Made(simple_row(date, hourDraw, minute, city, cat, cents, payment))

NextGen ==
    \/ GenerateRow
    \/ GenerateRowRaises
    \/ GenerateSimpleRow

SpecGen == InitGen /\ [][NextGen]_vars

(***************************************************************************)
(* generator/sales_generator.py: the loops that write the dataset file.    *)
(* batch_num counts the batches written by generate_to_file and the rows   *)
(* written by generate_simple_file (its loop variable i).                  *)
(***************************************************************************)
\* Largest num_rows and batch_size of generate_to_file.
MaxRows == 5

MaxBatchSize == 3

\* Largest num_rows of generate_simple_file: above 10, where the progress
\* step num_rows // 10 is positive.
MaxSimpleRows == 11

\* Two of the rows generate_row returns: the first and the last outcome of
\* every draw.
SampleRows ==
    { generate_row([y |-> 2020, m |-> 1, d |-> 1], 0, 0, 0, Categories[1], 95, 0),
      generate_row([y |-> 2023, m |-> 12, d |-> 31], 100, 59, SumSeq(CityWeights),
                   Categories[16], 47250, 100) }

\* Two of the rows generate_simple_file formats.
SimpleSampleRows ==
    { simple_row([y |-> 2023, m |-> 1, d |-> 1], 1, 0,
                 <<"V", "i", "g", "o">>,
                 [name |-> <<"R", "o", "p", "a">>, low |-> 15, high |-> 300],
                 1500, <<"b", "i", "z", "u", "m">>),
      simple_row([y |-> 2023, m |-> 12, d |-> 31], 100, 59,
                 <<"A", SP, "C", "o", "r", "u", "n", "h", "a">>,
                 [name |-> <<"R", "o", "p", "a">>, low |-> 15, high |-> 300],
                 30000, <<"v", "i", "s", "a">>) }

RECURSIVE JoinNL(_)
\* '\n'.join(batch_rows)
JoinNL(rows) ==
    IF rows = <<>> THEN <<>>
    ELSE IF Len(rows) = 1 THEN rows[1]
    ELSE rows[1] \o <<NL>> \o JoinNL(Tail(rows))

Min(a, b) == IF a < b THEN a ELSE b

\* batches = (num_rows + batch_size - 1) // batch_size
batches == (num_rows + batch_size - 1) \div batch_size

batch_start == batch_num * batch_size

batch_end == Min(batch_start + batch_size, num_rows)

batch_size_actual == batch_end - batch_start

FileWriters == {"generate_to_file", "generate_simple_file"}

InitFile ==
    /\ prog \in FileWriters
    /\ num_rows \in 0..(IF prog = "generate_to_file" THEN MaxRows ELSE MaxSimpleRows)
    /\ batch_size \in IF prog = "generate_to_file" THEN 1..MaxBatchSize ELSE {1}
    /\ batch_num = 0
    /\ file = <<>>
    /\ stdin = <<>>
    /\ pos = 1
    /\ oldKey = None
    /\ acc = IntNum(0)
    /\ out = <<>>
    /\ exc = "none"
    /\ pc = "loop"
    /\ genRow = <<>>

\* An uncaught exception ends the run.
Abort(e) ==
    /\ pc' = "raised"
    /\ exc' = e

\* One iteration of the batch loop of generate_to_file: the rows of the
\* batch are generated, joined and written, a newline follows except after
\* the last batch.  The progress line only prints.
WriteBatch ==
    /\ prog = "generate_to_file"
    /\ pc = "loop"
    /\ batch_num < batches
    /\ \E batch_rows \in [1..batch_size_actual -> SampleRows] :
          file' = file \o JoinNL(batch_rows)
                       \o (IF batch_end < num_rows THEN <<NL>> ELSE <<>>)
    /\ batch_num' = batch_num + 1
    /\ UNCHANGED <<prog, stdin, pos, oldKey, acc, out, pc, exc, genRow,
                   num_rows, batch_size>>

\* Under Python 3 the first call of generate_row raises TypeError
\* (random.choice on the keys of a dict): nothing is written.
WriteBatchRaises ==
    /\ prog = "generate_to_file"
    /\ pc = "loop"
    /\ batch_num = 0
    /\ batch_num < batches
    /\ batch_size_actual >= 1
    /\ Abort("TypeError")
    /\ UNCHANGED <<prog, stdin, pos, oldKey, acc, out, genRow, fileVars>>

\* After the loop: the file is closed and the summary printed.  The average
\* speed divides by the elapsed time, which is 0.0 when the clock has not
\* advanced since the start.
CloseAndReport ==
    /\ prog = "generate_to_file"
    /\ pc = "loop"
    /\ batch_num = batches
    /\ \/ pc' = "done" /\ exc' = exc
       \/ Abort("ZeroDivisionError")
    /\ UNCHANGED <<prog, stdin, pos, oldKey, acc, out, genRow, fileVars>>

\* One iteration of the loop of generate_simple_file: a row and its newline
\* are written, then the progress test (i + 1) % (num_rows // 10) is
\* evaluated, which divides by zero when num_rows < 10.
WriteSimpleRow ==
    /\ prog = "generate_simple_file"
    /\ pc = "loop"
    /\ batch_num < num_rows
    /\ \E row \in SimpleSampleRows : file' = file \o row
    /\ IF num_rows \div 10 = 0
       THEN Abort("ZeroDivisionError") /\ batch_num' = batch_num
       ELSE batch_num' = batch_num + 1 /\ UNCHANGED <<pc, exc>>
    /\ UNCHANGED <<prog, stdin, pos, oldKey, acc, out, genRow,
                   num_rows, batch_size>>

\* After the loop of generate_simple_file: the summary divides num_rows by
\* the elapsed time.
SimpleReport ==
    /\ prog = "generate_simple_file"
    /\ pc = "loop"
    /\ batch_num = num_rows
    /\ \/ pc' = "done" /\ exc' = exc
       \/ Abort("ZeroDivisionError")
    /\ UNCHANGED <<prog, stdin, pos, oldKey, acc, out, genRow, fileVars>>

NextFile ==
    \/ WriteBatch
    \/ WriteBatchRaises
    \/ CloseAndReport
    \/ WriteSimpleRow
    \/ SimpleReport

SpecFile == InitFile /\ [][NextFile]_vars

(***************************************************************************)
(* Vocabulary of the properties                                            *)
(***************************************************************************)
\* The lines read so far.
Consumed == SubSeq(stdin, 1, pos - 1)

RECURSIVE Filter(_, _)
\* The lines of the stream whose index is in keep, in order.
Filter(lines, keep) ==
    IF lines = <<>> THEN <<>>
    ELSE LET n == Len(lines)
             front == Filter(SubSeq(lines, 1, n - 1), keep)
         IN  IF n \in keep THEN Append(front, lines[n]) ELSE front

RECURSIVE RunLines(_, _, _)
\* Script p run from state st over the lines, up to an exception.
RunLines(p, st, lines) ==
    IF lines = <<>> \/ st.exc # "none" THEN st
    ELSE RunLines(p, LineOf(p, st, Head(lines)), Tail(lines))

\* A pair line as the Aggregator reads it: key, tab, measure.
PairFields(line) == Split(Strip(line), TAB)

IsPair(line) == Len(PairFields(line)) = 2

KeyOf(line) == PairFields(line)[1]

\* The measure parses in the domain of reducer p (int for count, else float).
Parses(p, line) ==
    IF p = "ex4" THEN IsInt(PairFields(line)[2]) ELSE IsFloat(PairFields(line)[2])

\* The numeric value of the measure, in tenths.
MeasureOf(p, line) ==
    IF p = "ex4" THEN IntOf(PairFields(line)[2]).n ELSE FloatOf(PairFields(line)[2]).n

WellFormed(p, lines) ==
    \A i \in 1..Len(lines) : IsPair(lines[i]) /\ Parses(p, lines[i])

Code(c) ==
    CASE c = SP -> 32 [] c = "a" -> 97 [] c = "b" -> 98 [] c = "c" -> 99
      [] c = "x" -> 120 [] c \in Digits -> 48 + DigitVal(c) [] OTHER -> 0

RECURSIVE LexLeq(_, _)
\* s <= t in the lexicographic order of strings.
LexLeq(s, t) ==
    IF s = <<>> THEN TRUE
    ELSE IF t = <<>> THEN FALSE
    ELSE IF Head(s) = Head(t) THEN LexLeq(Tail(s), Tail(t))
    ELSE Code(Head(s)) < Code(Head(t))

SortedByKey(lines) ==
    \A i \in 1..(Len(lines) - 1) : LexLeq(KeyOf(lines[i]), KeyOf(lines[i + 1]))

\* The first lines of the maximal runs of equal keys.
RunStarts(lines) ==
    {i \in 1..Len(lines) : i = 1 \/ KeyOf(lines[i]) # KeyOf(lines[i - 1])}

KeySet(lines) == {KeyOf(lines[i]) : i \in 1..Len(lines)}

RECURSIVE SumOver(_, _, _)
\* The sum of the measures of the lines whose index is in idx.
SumOver(p, lines, idx) ==
    IF idx = {} THEN 0
    ELSE LET i == CHOOSE j \in idx : TRUE
         IN  MeasureOf(p, lines[i]) + SumOver(p, lines, idx \ {i})

WithKey(lines, k) == {i \in 1..Len(lines) : KeyOf(lines[i]) = k}

MaxOver(p, lines, idx) ==
    CHOOSE m \in {MeasureOf(p, lines[i]) : i \in idx} :
        \A i \in idx : MeasureOf(p, lines[i]) <= m

OutKeys == {out[i].key : i \in 1..Len(out)}

\* C1: grouping completeness.  When a grouped reducer (max, count, sum) has
\* read a key-sorted stream of well-formed pairs to the end, it has emitted as
\* many Results as the stream has maximal runs of equal keys, which is the
\* number of distinct keys, and every distinct key has exactly one Result.
C1_GroupingCompleteness ==
    (prog \in Grouped /\ pc = "done" /\ WellFormed(prog, stdin) /\ SortedByKey(stdin))
    => /\ Len(out) = Cardinality(RunStarts(stdin))
       /\ Len(out) = Cardinality(KeySet(stdin))
       /\ \A k \in KeySet(stdin) :
             Cardinality({i \in 1..Len(out) : out[i].key = k}) = 1

C1_Witness ==
    /\ prog \in Grouped /\ pc = "done"
    /\ WellFormed(prog, stdin) /\ SortedByKey(stdin)
    /\ Len(stdin) = 3 /\ Len(out) = 2

\* C2: max-per-key correctness.  After a key-sorted stream of well-formed
\* pairs, every Result of the max reducer carries the maximum of the measures
\* bearing its key, negative measures included.
C2_MaxPerKey ==
    (prog = "ex3" /\ pc = "done" /\ WellFormed(prog, stdin) /\ SortedByKey(stdin))
    => /\ OutKeys = KeySet(stdin)
       /\ \A i \in 1..Len(out) :
             out[i].value.n = MaxOver(prog, stdin, WithKey(stdin, out[i].key))

\* C3: sum-per-key correctness.  After a key-sorted stream of well-formed
\* pairs, every Result of the sum reducer carries the sum of exactly the
\* measures bearing its key.
C3_SumPerKey ==
    (prog = "ex5" /\ pc = "done" /\ WellFormed(prog, stdin) /\ SortedByKey(stdin))
    => /\ OutKeys = KeySet(stdin)
       /\ \A i \in 1..Len(out) :
             out[i].value.n = SumOver(prog, stdin, WithKey(stdin, out[i].key))

C3_Witness ==
    /\ prog = "ex5" /\ pc = "done"
    /\ WellFormed(prog, stdin) /\ SortedByKey(stdin)
    /\ Len(stdin) = 3 /\ Len(out) = 2
    /\ KeyOf(stdin[2]) = KeyOf(stdin[3])

\* C4: count-per-key correctness.  After a key-sorted stream of pairs with
\* integer measures, every Result of the count reducer carries the integer sum
\* of the measures bearing its key.
C4_CountPerKey ==
    (prog = "ex4" /\ pc = "done" /\ WellFormed(prog, stdin) /\ SortedByKey(stdin))
    => /\ OutKeys = KeySet(stdin)
       /\ \A i \in 1..Len(out) :
             /\ out[i].value.t = "int"
             /\ out[i].value.n = SumOver(prog, stdin, WithKey(stdin, out[i].key))

C4_Witness ==
    /\ prog = "ex4" /\ pc = "done"
    /\ WellFormed(prog, stdin) /\ SortedByKey(stdin)
    /\ Len(stdin) = 3 /\ Len(out) = 2
    /\ KeyOf(stdin[2]) = KeyOf(stdin[3])

\* C5: the grand total ignores keys.  On a stream of well-formed pairs, in any
\* order, the grand-total reducer has emitted nothing while it reads, and at
\* the end exactly one Result, whose value is the sum of all the measures.
C5_GrandTotal ==
    (prog = "ex6" /\ WellFormed(prog, stdin))
    => /\ pc \in {"loop", "done"}
       /\ pc = "loop" => out = <<>>
       /\ pc = "done" =>
             /\ Len(out) = 1
             /\ out[1].value.n = SumOver(prog, stdin, 1..Len(stdin))

C5_Witness ==
    /\ prog = "ex6" /\ pc = "done" /\ WellFormed(prog, stdin)
    /\ Len(stdin) = 3 /\ ~SortedByKey(stdin)
    /\ Cardinality(RunStarts(stdin)) = 3

NoPairs(lines) == \A i \in 1..Len(lines) : ~IsPair(lines[i])

TOTAL == <<"T", "O", "T", "A", "L">>

\* C6 as stated: on an empty stream, or one of malformed lines only, the
\* grouped reducers emit nothing and the grand-total reducer emits the one
\* Result ("TOTAL", 0).
C6_EmptyStreamTOTAL ==
    (prog \in Reducers /\ pc = "done" /\ NoPairs(stdin))
    => IF prog \in Grouped THEN out = <<>>
       ELSE out = <<Result(TOTAL, IntNum(0))>>

\* C6 amended: on an empty stream, or one of malformed lines only, the
\* grouped reducers emit nothing and the grand-total reducer emits the one
\* Result ("TOTAL_ABSOLUTO", 0).
C6_EmptyStream ==
    (prog \in Reducers /\ pc = "done" /\ NoPairs(stdin))
    => IF prog \in Grouped THEN out = <<>>
       ELSE out = <<Result(TOTAL_ABSOLUTO, IntNum(0))>>

C6_Witness ==
    /\ prog = "ex6" /\ pc = "done"
    /\ Len(stdin) = 2 /\ NoPairs(stdin) /\ Len(out) = 1

\* A raw record as the Extractors read it.
RecordFields(line) == Split(Strip(line), TAB)

\* Wrong field count, or an amount that is no number.
BadRecord(line) ==
    \/ Len(RecordFields(line)) # 5
    \/ ~IsFloat(RecordFields(line)[4])

\* A 5-field record whose timestamp is not "<date> HH:MM": no space, or no
\* colon in the time-of-day part.
BadTimestamp(line) ==
    /\ Len(RecordFields(line)) = 5
    /\ LET words == Split(RecordFields(line)[1], SP)
       IN  \/ Len(words) < 2
           \/ IndexOf(words[2], ":") = 0

\* C7: malformed-row skip.  In both Extractors a record with a field count
\* other than 5, or with a non-numeric amount, raises no error and yields no
\* pair, and the pairs emitted are those of the stream without such records.
C7_MalformedRowSkip ==
    prog \in Mappers
    => /\ pc = "raised" => ~BadRecord(stdin[pos - 1])
       /\ out = RunLines(prog, InitOf(prog),
                         Filter(Consumed,
                                {i \in 1..Len(Consumed) : ~BadRecord(Consumed[i])})).out

\* C8: unparseable timestamp.  The time-bucket Extractor raises no error on a
\* 5-field record whose timestamp cannot be decomposed and emits no pair for
\* it: its output is that of the stream without such records.
C8_UnparseableTimestamp ==
    prog = "ex5map"
    => /\ pc = "raised" => ~BadTimestamp(stdin[pos - 1])
       /\ out = RunLines(prog, InitOf(prog),
                         Filter(Consumed,
                                {i \in 1..Len(Consumed) : ~BadTimestamp(Consumed[i])})).out

\* C9: malformed pair at the Aggregator.  In every reducer the lines whose
\* field count is not 2 change nothing: at every point of the run the key, the
\* accumulator, the Results and the error state are those of the run over the
\* lines read so far with the malformed ones removed.
C9_MalformedPairNoStateChange ==
    prog \in Reducers
    => LET pairs == Filter(Consumed, {i \in 1..Len(Consumed) : IsPair(Consumed[i])})
           st == RunLines(prog, InitOf(prog), pairs)
       IN  State = IF pc = "done" THEN EndOf(prog, st) ELSE st

C9_Witness ==
    /\ prog \in Grouped /\ pc = "done" /\ Len(stdin) = 3
    /\ IsPair(stdin[1]) /\ ~IsPair(stdin[2]) /\ IsPair(stdin[3])
    /\ KeyOf(stdin[1]) = KeyOf(stdin[3])
    /\ Len(out) = 1

\* C10: boundary adjacency.  In the max, count and sum reducers a group of a
\* single pair at the start or at the end of a stream of well-formed pairs
\* (or being the whole stream) has one Result, carrying that pair's measure.
C10_SingleElementGroup ==
    (prog \in Grouped /\ pc = "done" /\ WellFormed(prog, stdin) /\ stdin # <<>>)
    => LET n == Len(stdin)
       IN  /\ Len(out) = Cardinality(RunStarts(stdin))
           /\ (n = 1 \/ KeyOf(stdin[1]) # KeyOf(stdin[2]))
              => /\ out[1].key = KeyOf(stdin[1])
                 /\ out[1].value.n = MeasureOf(prog, stdin[1])
           /\ n \in RunStarts(stdin)
              => /\ out[Len(out)].key = KeyOf(stdin[n])
                 /\ out[Len(out)].value.n = MeasureOf(prog, stdin[n])

\* The first line of the i-th maximal run of equal keys.
NthStart(lines, i) ==
    CHOOSE r \in RunStarts(lines) :
        Cardinality({t \in RunStarts(lines) : t <= r}) = i

\* The lines of the run that starts at line r.
RunAt(lines, r) ==
    {j \in r..Len(lines) : \A m \in r..j : KeyOf(lines[m]) = KeyOf(lines[r])}

\* The combine function of reducer p over the lines idx: max, or sum.
Combine(p, lines, idx) ==
    IF p = "ex3" THEN MaxOver(p, lines, idx) ELSE SumOver(p, lines, idx)

\* A key comes back after its group was closed.
KeyReappears(lines) ==
    \E i, j, k \in 1..Len(lines) :
        /\ i < j /\ j < k
        /\ KeyOf(lines[i]) = KeyOf(lines[k])
        /\ KeyOf(lines[i]) # KeyOf(lines[j])

\* C11: out-of-order keys.  On a stream of well-formed pairs in which a key
\* reappears after its group was closed, the max, count and sum reducers
\* raise no error and emit one Result per contiguous run, the key twice, each
\* Result aggregating the measures of its own run only.
C11_OutOfOrderKeys ==
    (prog \in Grouped /\ WellFormed(prog, stdin) /\ KeyReappears(stdin))
    => /\ pc # "raised"
       /\ pc = "done" =>
             /\ Len(out) = Cardinality(RunStarts(stdin))
             /\ \A i \in 1..Len(out) :
                   LET r == NthStart(stdin, i)
                   IN  /\ out[i].key = KeyOf(stdin[r])
                       /\ out[i].value.n = Combine(prog, stdin, RunAt(stdin, r))

\* A 2-field pair whose measure does not parse in the domain of reducer p.
BadMeasure(p, line) == IsPair(line) /\ ~Parses(p, line)

\* The run was aborted by the first pair with an unparseable measure.
AbortedAtFirstBadMeasure ==
    (prog \in Reducers /\ \E i \in 1..Len(Consumed) : BadMeasure(prog, Consumed[i]))
    => /\ pc = "raised" /\ exc = "ValueError"
       /\ BadMeasure(prog, stdin[pos - 1])
       /\ \A i \in 1..(pos - 2) : ~BadMeasure(prog, stdin[i])

\* C12: a numeric parse failure is fatal.  In every reducer the first pair
\* whose measure does not parse in the reducer's domain aborts the run with
\* ValueError: no later line is read, and no step follows the abort, so
\* neither the end-of-stream flush nor the grand-total line is printed.
C12_ParseFailureFatal ==
    /\ AbortedAtFirstBadMeasure
    /\ pc = "raised" => ~ENABLED Next

C12_Witness ==
    /\ prog = "ex3" /\ pc = "raised"
    /\ BadMeasure(prog, stdin[pos - 1])
    /\ oldKey # None /\ out = <<>>
    /\ pos <= Len(stdin)

\* C13: Result order.  After a stream of well-formed pairs a grouped reducer
\* has emitted the keys of the groups in the order in which the groups occur
\* in the input; for a key-sorted input the emitted keys are strictly
\* increasing, so no key is repeated.
C13_ResultOrder ==
    (prog \in Grouped /\ pc = "done" /\ WellFormed(prog, stdin))
    => /\ Len(out) = Cardinality(RunStarts(stdin))
       /\ \A i \in 1..Len(out) : out[i].key = KeyOf(stdin[NthStart(stdin, i)])
       /\ SortedByKey(stdin)
          => \A i, j \in 1..Len(out) :
                i < j => /\ LexLeq(out[i].key, out[j].key)
                         /\ out[i].key # out[j].key

C13_Witness ==
    /\ prog \in Grouped /\ pc = "done"
    /\ WellFormed(prog, stdin) /\ SortedByKey(stdin)
    /\ Len(out) = 3

\* The fields of a raw record: the line without its newline, split on tabs.
RawFields(line) ==
    Split(IF line # <<>> /\ line[Len(line)] = NL
          THEN SubSeq(line, 1, Len(line) - 1) ELSE line, TAB)

\* Exactly 5 fields and a numeric amount.
GoodRecord(line) == Len(RawFields(line)) = 5 /\ IsFloat(RawFields(line)[4])

\* The hour substring of a timestamp "<date> HH:MM".
HourOf(ts) ==
    LET words == Split(ts, SP)
    IN  IF Len(words) < 2 THEN <<>> ELSE Split(words[2], ":")[1]

\* The pair line of Extractor p for a good record: key, tab, amount unchanged.
PairOf(p, line) ==
    (IF p = "ex2map" THEN RawFields(line)[3] ELSE HourOf(RawFields(line)[1]))
        \o <<TAB>> \o RawFields(line)[4]

RECURSIVE PairsOfGood(_, _)
PairsOfGood(p, lines) ==
    IF lines = <<>> THEN <<>>
    ELSE (IF GoodRecord(Head(lines)) THEN <<PairOf(p, Head(lines))>> ELSE <<>>)
             \o PairsOfGood(p, Tail(lines))

RECURSIVE IsSubseq(_, _)
\* a is b with some elements left out.
IsSubseq(a, b) ==
    IF a = <<>> THEN TRUE
    ELSE IF b = <<>> THEN FALSE
    ELSE IF Head(a) = Head(b) THEN IsSubseq(Tail(a), Tail(b))
    ELSE IsSubseq(a, Tail(b))

\* C14: Extractor output.  An Extractor raises no error and emits at most one
\* pair per line read, in input order; for every record with exactly 5 fields
\* and a numeric amount it emits (item, amount), respectively (hour, amount),
\* with the amount string unchanged.
C14_ExtractorOutput ==
    prog \in Mappers
    => /\ pc # "raised"
       /\ Len(out) <= Len(Consumed)
       /\ IsSubseq(PairsOfGood(prog, Consumed), out)

\* The indices of the pairs among the lines read so far.
PairsRead == {i \in 1..Len(Consumed) : IsPair(Consumed[i])}

\* C16: constant memory.  At every point of a run a reducer holds one key
\* slot and one scalar accumulator, however many pairs it has read and groups
\* it has closed: oldKey is None or a single key, in a grouped reducer the key
\* of the last pair read, and the accumulator is one number.
C16_ConstantMemory ==
    prog \in Reducers
    => /\ Len(oldKey) <= 1
       /\ DOMAIN acc = {"t", "n", "negz"}
       /\ acc.t \in {"int", "float"} /\ acc.n \in Int /\ acc.negz \in BOOLEAN
       /\ (prog \in Grouped /\ pc # "raised")
          => oldKey = IF PairsRead = {} THEN None
                      ELSE Some(KeyOf(Consumed[CHOOSE i \in PairsRead :
                                                   \A j \in PairsRead : j <= i]))

C16_Witness ==
    /\ prog \in Grouped /\ pc = "loop"
    /\ pos = 4 /\ Len(out) = 2
    /\ Len(oldKey) = 1

\* The Result of the i-th run of the lines under reducer p: key and value.
RunKey(lines, i) == KeyOf(lines[NthStart(lines, i)])

RunValue(p, lines, i) == Combine(p, lines, RunAt(lines, NthStart(lines, i)))

\* C18: emission timing.  After any prefix of well-formed pairs a grouped
\* reducer has emitted exactly the Results of the closed groups (every run but
\* the last), the open group is not emitted, and the key and accumulator held
\* are the key and the combined measures of the trailing run; at the end of
\* the stream the open group is emitted once, as the last Result.
C18_EmissionTiming ==
    (prog \in Grouped /\ WellFormed(prog, Consumed) /\ Consumed # <<>>
        /\ (pc = "done" => WellFormed(prog, stdin)))
    => LET runs == Cardinality(RunStarts(Consumed))
           closed == IF pc = "done" THEN runs ELSE runs - 1
       IN  /\ pc # "raised"
           /\ Len(out) = closed
           /\ \A i \in 1..closed :
                 /\ out[i].key = RunKey(Consumed, i)
                 /\ out[i].value.n = RunValue(prog, Consumed, i)
           /\ oldKey = Some(RunKey(Consumed, runs))
           /\ acc.n = RunValue(prog, Consumed, runs)

\* C20: output before an abort.  When a pair with an unparseable measure
\* follows pairs with integer measures, the max, count and sum reducers have
\* all emitted the same keys when they abort: those of the groups closed
\* before that pair.  The pair itself causes no emission, also when its key
\* differs from the key of the open group.
C20_OutputBeforeAbort ==
    LET before == SubSeq(stdin, 1, pos - 2)
    IN  (prog \in Grouped /\ pc = "raised"
            /\ WellFormed("ex4", before) /\ ~IsFloat(PairFields(stdin[pos - 1])[2]))
        => /\ Len(out) = IF before = <<>> THEN 0
                         ELSE Cardinality(RunStarts(before)) - 1
           /\ \A i \in 1..Len(out) : out[i].key = RunKey(before, i)

(***************************************************************************)
(* The generic Aggregator of the design, with the sum combine function:    *)
(* domain float, initializer v, fold acc + v.  Its state is NO_GROUP (no   *)
(* group) or IN_GROUP(key, acc) (one group).                               *)
(***************************************************************************)
GenericInit == [group |-> <<>>, out |-> <<>>, exc |-> "none"]

GenericSumLine(st, line) ==
    LET fields == Split(Strip(line), TAB)
    IN  IF Len(fields) # 2 THEN st
        ELSE IF ~IsFloat(fields[2]) THEN [st EXCEPT !.exc = "MalformedMeasure"]
        ELSE LET k == fields[1]
                 v == FloatOf(fields[2])
             IN  IF st.group = <<>>
                 THEN [st EXCEPT !.group = <<[key |-> k, acc |-> v]>>]
                 ELSE IF st.group[1].key = k
                 THEN [st EXCEPT !.group = <<[key |-> k, acc |-> Add(st.group[1].acc, v)]>>]
                 ELSE [st EXCEPT
                         !.out = Append(@, Result(st.group[1].key, st.group[1].acc)),
                         !.group = <<[key |-> k, acc |-> v]>>]

GenericEnd(st) ==
    IF st.group # <<>>
    THEN [st EXCEPT !.out = Append(@, Result(st.group[1].key, st.group[1].acc))]
    ELSE st

RECURSIVE GenericSumRun(_, _)
GenericSumRun(st, lines) ==
    IF lines = <<>> \/ st.exc # "none" THEN st
    ELSE GenericSumRun(GenericSumLine(st, Head(lines)), Tail(lines))

\* The Results of the generic sum Aggregator over the whole stream.
GenericSumResults(lines) == GenericEnd(GenericSumRun(GenericInit, lines)).out

\* Every measure of the i-th run is negative zero.
AllNegativeZero(lines, i) ==
    \A j \in RunAt(lines, NthStart(lines, i)) : FloatOf(PairFields(lines[j])[2]).negz

\* C19 as stated: on every stream of well-formed pairs, sorted or not, the
\* Results of the sum reducer, which resets to 0 on a key boundary and then
\* adds, are identical to those of the generic Aggregator with initializer v
\* and fold acc + v.
C19_SumIdenticalToGeneric ==
    (prog = "ex5" /\ pc = "done" /\ WellFormed(prog, stdin))
    => out = GenericSumResults(stdin)

\* C19 amended: the Results are identical except for a group all of whose
\* measures are negative zero, where the sum reducer yields 0.0 (0 + -0.0)
\* and the generic Aggregator -0.0.
C19_SumEqualsGeneric ==
    (prog = "ex5" /\ pc = "done" /\ WellFormed(prog, stdin))
    => LET gen == GenericSumResults(stdin)
       IN  /\ Len(out) = Len(gen)
           /\ \A i \in 1..Len(out) :
                 \/ out[i] = gen[i]
                 \/ /\ AllNegativeZero(stdin, i)
                    /\ out[i].key = gen[i].key
                    /\ out[i].value = [t |-> "float", n |-> 0, negz |-> FALSE]
                    /\ gen[i].value = [t |-> "float", n |-> 0, negz |-> TRUE]

C19_Witness ==
    /\ prog = "ex5" /\ pc = "done" /\ WellFormed(prog, stdin)
    /\ ~SortedByKey(stdin) /\ Len(out) = 3

\* The characters of s from position i to j are digits.
DigitsAt(s, i, j) == \A k \in i..j : s[k] \in Digits

\* 'YYYY-MM-DD HH:MM'
TimestampShape(ts) ==
    /\ Len(ts) = 16
    /\ DigitsAt(ts, 1, 4) /\ ts[5] = "-" /\ DigitsAt(ts, 6, 7) /\ ts[8] = "-"
    /\ DigitsAt(ts, 9, 10) /\ ts[11] = SP
    /\ DigitsAt(ts, 12, 13) /\ ts[14] = ":" /\ DigitsAt(ts, 15, 16)

\* C17: generator rows match the Extractor input schema.  Every row made by
\* generate_row and by generate_simple_file has exactly 5 tab-separated
\* non-empty fields, a timestamp 'YYYY-MM-DD HH:MM' with the hour in 9..20
\* and a numeric amount, and each Extractor emits exactly one pair for it:
\* (category, amount), respectively (hour, amount).
C17_GeneratorRowSchema ==
    (prog \in Generators /\ pc = "done")
    => LET f == RawFields(genRow)
       IN  /\ Len(f) = 5
           /\ \A i \in 1..5 : f[i] # <<>>
           /\ TimestampShape(f[1])
           /\ NatOf(SubSeq(f[1], 12, 13)) \in 9..20
           /\ NatOf(SubSeq(f[1], 15, 16)) \in 0..59
           /\ IsFloat(f[4])
           /\ Ex2MapLine(MapInit, genRow)
                  = [MapInit EXCEPT !.out = <<f[3] \o <<TAB>> \o f[4]>>]
           /\ Ex5MapLine(MapInit, genRow)
                  = [MapInit EXCEPT !.out = <<SubSeq(f[1], 12, 13) \o <<TAB>> \o f[4]>>]

C17_Witness ==
    /\ prog = "generate_simple_file" /\ pc = "done"
    /\ SubSeq(genRow, 12, 13) = <<"2", "0">>
    /\ IndexOf(RawFields(genRow)[2], SP) # 0

\* The key an Extractor put in front of the tab of a pair line it printed.
EmittedKey(pair) == SubSeq(pair, 1, IndexOf(pair, TAB) - 1)

\* The sum reducer reads the printed pair line as the first line of its
\* input and takes it as a pair of that key with a parseable measure.
AcceptedByReducer(pair) ==
    LET st == Ex5Line(Ex5Init, pair \o <<NL>>)
    IN  /\ st.exc = "none"
        /\ st.oldKey = Some(EmittedKey(pair))

\* C21: Extractor/Aggregator composition.  Every pair line emitted by an
\* Extractor is accepted by the Aggregators: stripped and split on tab it
\* has exactly 2 fields, its key is the key the Extractor derived and its
\* measure parses as a float; no pair of an accepted record (empty item
\* field, empty hour part) is dropped by the reducer's field-count check.
C21_PairsAcceptedByReducer ==
    prog \in Mappers => \A i \in 1..Len(out) : AcceptedByReducer(out[i])

\* The rows of a file: its text split at the newlines.
Rows(text) == IF text = <<>> THEN <<>> ELSE Split(text, NL)

\* How many lines of the file hold a row.
RowCount(text) == Cardinality({k \in 1..Len(Rows(text)) : Rows(text)[k] # <<>>})

Ceil(a, b) == IF a % b = 0 THEN a \div b ELSE a \div b + 1

C23_SimpleGenerationCompletes ==
    (prog = "generate_simple_file" /\ num_rows >= 1 /\ pc # "loop")
    => /\ batch_num = num_rows
       /\ file[Len(file)] = NL
       /\ Len(Rows(file)) = num_rows + 1
       /\ \A k \in 1..num_rows : Rows(file)[k] \o <<NL>> \in SimpleSampleRows

====
